---- MODULE Spec2Model ----
(***************************************************************************)
(* term_cursor: terminal cursor movement behind one three-operation        *)
(* platform interface (set_cursor_pos, get_cursor_pos, clear), exposed as  *)
(* free functions and as Display types (src/src/lib.rs).                   *)
(*                                                                         *)
(* The public API of lib.rs is modelled from its source.  The platform     *)
(* module (`mod platform;`, lib.rs:26) has no source file here: its two    *)
(* backends (Windows console API, ANSI escape sequences) and the terminal  *)
(* they talk to are modelled from spec.md sections 3, 4.2, 4.3 and 5.      *)
(***************************************************************************)
EXTENDS Integers, Sequences, FiniteSets, TLC

VARIABLES backend, checks, term, th

vars == <<backend, checks, term, th>>

(***************************************************************************)
(* Bounds of the model: the size of the terminal screen.                   *)
(***************************************************************************)
Cols == 3

Rows == 2

(***************************************************************************)
(* i32 arithmetic.  An overflowing +, - or negation panics in a build with *)
(* overflow checks and wraps modulo 2^32 in a build without them.          *)
(***************************************************************************)
MaxI32 == 2147483647

MinI32 == -MaxI32 - 1

AddOvf(a, b) == \/ b > 0 /\ a > MaxI32 - b
                \/ b < 0 /\ a < MinI32 - b

AddWrap(a, b) == IF ~AddOvf(a, b) THEN a + b
                 ELSE IF b > 0 THEN (a + MinI32) + (b + MinI32)
                 ELSE (a - MinI32) + (b - MinI32)

NegOvf(n) == n = MinI32

NegWrap(n) == IF NegOvf(n) THEN MinI32 ELSE -n

(***************************************************************************)
(* Bytes and decimal text.  A byte is a one-token string; ESC is 0x1B.     *)
(***************************************************************************)
ESC == "ESC"

DigitChars == <<"0", "1", "2", "3", "4", "5", "6", "7", "8", "9">>

IsDigit(c) == \E i \in 1..10 : DigitChars[i] = c

DigitVal(c) == (CHOOSE i \in 1..10 : DigitChars[i] = c) - 1

RECURSIVE FmtNat(_)
FmtNat(n) == IF n < 10 THEN <<DigitChars[n + 1]>>
             ELSE Append(FmtNat(n \div 10), DigitChars[(n % 10) + 1])

\* `{}` formatting of an i32: a minus sign, then the decimal magnitude.
FmtI32(n) == IF n >= 0 THEN FmtNat(n)
             ELSE LET d == (10 - (n % 10)) % 10
                      q == -((n + d) \div 10)
                  IN  <<"-">> \o (IF q = 0 THEN <<>> ELSE FmtNat(q))
                              \o <<DigitChars[d + 1]>>

AllDigits(s) == \A i \in 1..Len(s) : IsDigit(s[i])

RECURSIVE NatVal(_)
NatVal(s) == IF s = <<>> THEN 0
             ELSE NatVal(SubSeq(s, 1, Len(s) - 1)) * 10 + DigitVal(s[Len(s)])

\* Mutant: an ad-hoc digit loop, which reads an empty field as 0.
ParseField_lenient(s) ==
    IF ~AllDigits(s) \/ Len(s) > 9 THEN -1 ELSE NatVal(s)

\* A decimal field read as an i32: -1 when it is empty, holds a non-digit
\* or names a number above MaxI32.
ParseField(s) ==
    IF s = <<>> \/ ~AllDigits(s) \/ Len(s) > 10 THEN -1
    ELSE IF Len(s) < 10 THEN NatVal(s)
    ELSE LET hi == NatVal(SubSeq(s, 1, 9))
             lo == DigitVal(s[10])
         IN  IF hi < 214748364 \/ (hi = 214748364 /\ lo <= 7)
             THEN hi * 10 + lo ELSE -1

\* Index of the first occurrence of byte c in s, 0 when there is none.
IndexOf(s, c) == IF \E i \in 1..Len(s) : s[i] = c
                 THEN CHOOSE i \in 1..Len(s) :
                          s[i] = c /\ \A j \in 1..(i - 1) : s[j] # c
                 ELSE 0

\* The ;-separated fields of s.
RECURSIVE SplitSemi(_)
SplitSemi(s) == LET i == IndexOf(s, ";")
                IN  IF i = 0 THEN <<s>>
                    ELSE <<SubSeq(s, 1, i - 1)>>
                         \o SplitSemi(SubSeq(s, i + 1, Len(s)))

(***************************************************************************)
(* The terminal: a Cols x Rows screen of character cells with attributes   *)
(* and a cursor that is always on the screen.                              *)
(***************************************************************************)
Cells == (0..(Cols - 1)) \X (0..(Rows - 1))

Origin == <<0, 0>>

OnScreen(x, y) == x \in 0..(Cols - 1) /\ y \in 0..(Rows - 1)

Blank == [c \in Cells |-> " "]

Filled == [c \in Cells |-> "x"]

OldAttrs == [c \in Cells |-> "old"]

CurAttrs == [c \in Cells |-> "cur"]

Min(a, b) == IF a < b THEN a ELSE b

\* A CSI parameter as the terminal reads it: empty or 0 is 1, long digit
\* strings saturate.
TermParam(s) == IF s = <<>> THEN 1
                ELSE IF Len(s) > 4 THEN 9999
                ELSE IF NatVal(s) = 0 THEN 1 ELSE NatVal(s)

\* What the terminal does with one escape sequence written to it.
TermInput(t, bytes) ==
    IF Len(bytes) < 3 \/ bytes[1] # ESC \/ bytes[2] # "["
    THEN t
    ELSE LET final  == bytes[Len(bytes)]
             params == SubSeq(bytes, 3, Len(bytes) - 1)
             fields == SplitSemi(params)
         IN  IF final = "H" /\ Len(fields) <= 2
                /\ \A i \in 1..Len(fields) : AllDigits(fields[i])
             THEN LET row == TermParam(fields[1])
                      col == IF Len(fields) = 2 THEN TermParam(fields[2]) ELSE 1
                  IN  [t EXCEPT !.cur = <<Min(col, Cols) - 1, Min(row, Rows) - 1>>]
             ELSE IF final = "J" /\ params = <<"2">>
             THEN [t EXCEPT !.chars = Blank, !.attrs = CurAttrs]
             ELSE t

\* The terminal's cursor position report.
HonestReply(t) == <<ESC, "[">> \o FmtNat(t.cur[2] + 1) \o <<";">>
                  \o FmtNat(t.cur[1] + 1) \o <<"R">>

(***************************************************************************)
(* Errors (lib.rs:28-51).  A WinApiError variant is carried by its name;   *)
(* the variant Error::WinApiError exists only in the Windows build.        *)
(***************************************************************************)
IoError == "IoError"

GetCursorPosParseError == "GetCursorPosParseError"

WinApiError == {"GetStdHandleError", "GetConsoleScreenBufferInfoError",
                "FillConsoleOutputCharacterError",
                "FillConsoleOutputAttributeError",
                "SetConsoleCursorPositionError"}

Error == {IoError, GetCursorPosParseError}
         \cup (IF backend = "windows" THEN WinApiError ELSE {})

FmtError == "FmtError"

\* The error each console API call fails with.
WinErr(api) == CASE api = "GetStdHandle" -> "GetStdHandleError"
                 [] api = "GetConsoleScreenBufferInfo" -> "GetConsoleScreenBufferInfoError"
                 [] api = "FillConsoleOutputCharacter" -> "FillConsoleOutputCharacterError"
                 [] api = "FillConsoleOutputAttribute" -> "FillConsoleOutputAttributeError"
                 [] api = "SetConsoleCursorPosition" -> "SetConsoleCursorPositionError"

(***************************************************************************)
(* One platform call: what it returned, the terminal it left, and a record *)
(* of the call (os: the OS calls it made, in order; sent: the bytes that   *)
(* reached the terminal; reply: the bytes the terminal offered on stdin).  *)
(* status is "Ok", an Error, "Panic" (the call unwound) or "Blocked" (the  *)
(* call never returned).                                                   *)
(***************************************************************************)
NoVal == <<>>

Res(fn, x, y, status, val, t, os, sent, reply) ==
    [status |-> status, val |-> val, term |-> t,
     call |-> [fn |-> fn, x |-> x, y |-> y, status |-> status, val |-> val,
               os |-> os, sent |-> sent, reply |-> reply]]

(***************************************************************************)
(* Windows backend (spec.md 4.2).  Every console call may fail; the first  *)
(* failure returns that call's error and ends the operation.               *)
(***************************************************************************)
WinSetCursorPos(t, x, y) ==
    LET R(st, t2, os) == Res("set_cursor_pos", x, y, st, NoVal, t2, os, <<>>, <<>>)
    IN  {R(WinErr("GetStdHandle"), t, <<"GetStdHandle">>),
         R(WinErr("SetConsoleCursorPosition"), t,
           <<"GetStdHandle", "SetConsoleCursorPosition">>)}
        \cup (IF OnScreen(x, y)
              THEN {R("Ok", [t EXCEPT !.cur = <<x, y>>],
                      <<"GetStdHandle", "SetConsoleCursorPosition">>)}
              ELSE {})

WinGetCursorPos(t) ==
    LET R(st, v, os) == Res("get_cursor_pos", 0, 0, st, v, t, os, <<>>, <<>>)
    IN  {R(WinErr("GetStdHandle"), NoVal, <<"GetStdHandle">>),
         R(WinErr("GetConsoleScreenBufferInfo"), NoVal,
           <<"GetStdHandle", "GetConsoleScreenBufferInfo">>),
         R("Ok", t.cur, <<"GetStdHandle", "GetConsoleScreenBufferInfo">>)}

\* Mutant: a failed character fill does not end the operation.
WinClear_keeps_going(t) ==
    LET R(st, t2, os) == Res("clear", 0, 0, st, NoVal, t2, os, <<>>, <<>>)
        c4 == <<"GetStdHandle", "GetConsoleScreenBufferInfo",
                "FillConsoleOutputCharacter", "FillConsoleOutputAttribute">>
        c5 == Append(c4, "SetConsoleCursorPosition")
    IN  {R(WinErr("GetStdHandle"), t, <<"GetStdHandle">>),
         R(WinErr("GetConsoleScreenBufferInfo"), t, SubSeq(c4, 1, 2)),
         R(WinErr("FillConsoleOutputCharacter"), [t EXCEPT !.attrs = CurAttrs], c4),
         R(WinErr("FillConsoleOutputAttribute"), [t EXCEPT !.chars = Blank], c4),
         R(WinErr("SetConsoleCursorPosition"),
           [t EXCEPT !.chars = Blank, !.attrs = CurAttrs], c5),
         R("Ok", [t EXCEPT !.chars = Blank, !.attrs = CurAttrs, !.cur = Origin], c5)}

WinClear(t) ==
    LET R(st, t2, os) == Res("clear", 0, 0, st, NoVal, t2, os, <<>>, <<>>)
        c1 == <<"GetStdHandle">>
        c2 == Append(c1, "GetConsoleScreenBufferInfo")
        c3 == Append(c2, "FillConsoleOutputCharacter")
        c4 == Append(c3, "FillConsoleOutputAttribute")
        c5 == Append(c4, "SetConsoleCursorPosition")
        t3 == [t EXCEPT !.chars = Blank]
        t4 == [t3 EXCEPT !.attrs = CurAttrs]
        t5 == [t4 EXCEPT !.cur = Origin]
    IN  {R(WinErr("GetStdHandle"), t, c1),
         R(WinErr("GetConsoleScreenBufferInfo"), t, c2),
         R(WinErr("FillConsoleOutputCharacter"), t, c3),
         R(WinErr("FillConsoleOutputAttribute"), t3, c4),
         R(WinErr("SetConsoleCursorPosition"), t4, c5),
         R("Ok", t5, c5)}

(***************************************************************************)
(* ANSI backend (spec.md 4.3).                                             *)
(***************************************************************************)
\* ESC[{row};{col}H
CupBytes(row, col) == <<ESC, "[">> \o FmtI32(row) \o <<";">> \o FmtI32(col) \o <<"H">>

AnsiSetCursorPos(t, x, y) ==
    LET R(st, t2, os, sent) == Res("set_cursor_pos", x, y, st, NoVal, t2, os, sent, <<>>)
        bytes == CupBytes(AddWrap(y, 1), AddWrap(x, 1))
    IN  IF checks /\ (AddOvf(y, 1) \/ AddOvf(x, 1))
        THEN {R("Panic", t, <<>>, <<>>)}
        ELSE {R(IoError, t, <<"write">>, <<>>),
              R(IoError, t, <<"write", "flush">>, <<>>),
              R("Ok", TermInput(t, bytes), <<"write", "flush">>, bytes)}

\* The reply ESC[{row};{col}R, up to and including its R, as a 0-based
\* (column, row); ok is FALSE when it does not have that form.
ParseReply(token) ==
    LET n      == Len(token)
        fields == SplitSemi(SubSeq(token, 3, n - 1))
    IN  IF n < 3 \/ token[1] # ESC \/ token[2] # "[" \/ token[n] # "R"
           \/ Len(fields) # 2
        THEN [ok |-> FALSE, pos |-> NoVal]
        ELSE LET row == ParseField(fields[1])
                 col == ParseField(fields[2])
             IN  IF row < 0 \/ col < 0 THEN [ok |-> FALSE, pos |-> NoVal]
                 ELSE [ok |-> TRUE, pos |-> <<col - 1, row - 1>>]

DsrBytes == <<ESC, "[", "6", "n">>

\* Replies: what the terminal may put on stdin instead of its honest report.
\* The reply is read byte by byte up to its first R; with no R the next read
\* finds the input at its end (an I/O error) or waits for ever.
AnsiGetCursorPos(t, Replies) ==
    LET R(st, v, os, sent, reply) ==
            Res("get_cursor_pos", 0, 0, st, v, t, os, sent, reply)
        asked == <<"write", "flush", "read">>
        Read(reply) ==
            LET i == IndexOf(reply, "R")
            IN  IF i = 0
                THEN {R(IoError, NoVal, asked, DsrBytes, reply),
                      R("Blocked", NoVal, asked, DsrBytes, reply)}
                ELSE LET p == ParseReply(SubSeq(reply, 1, i))
                     IN  {IF p.ok THEN R("Ok", p.pos, asked, DsrBytes, reply)
                          ELSE R(GetCursorPosParseError, NoVal, asked, DsrBytes, reply)}
    IN  {R(IoError, NoVal, <<"write">>, <<>>, <<>>),
         R(IoError, NoVal, asked, DsrBytes, <<>>)}
        \cup UNION {Read(reply) : reply \in {HonestReply(t)} \cup Replies}

EdBytes == <<ESC, "[", "2", "J">>

AnsiClear(t) ==
    LET R(st, t2, os, sent) == Res("clear", 0, 0, st, NoVal, t2, os, sent, <<>>)
        t1 == TermInput(t, EdBytes)
        t2 == TermInput(t1, CupBytes(1, 1))
    IN  {R(IoError, t, <<"write">>, <<>>),
         R(IoError, t1, <<"write", "write">>, EdBytes),
         R("Ok", t2, <<"write", "write", "flush">>, EdBytes \o CupBytes(1, 1))}

(***************************************************************************)
(* mod platform: the backend the build selected.                           *)
(***************************************************************************)
platform_set_cursor_pos(t, x, y) ==
    IF backend = "windows" THEN WinSetCursorPos(t, x, y) ELSE AnsiSetCursorPos(t, x, y)

platform_get_cursor_pos(t, Replies) ==
    IF backend = "windows" THEN WinGetCursorPos(t) ELSE AnsiGetCursorPos(t, Replies)

platform_clear(t) ==
    IF backend = "windows" THEN WinClear(t) ELSE AnsiClear(t)

(***************************************************************************)
(* The public API (lib.rs).  Each operator gives the set of results the    *)
(* call can have on terminal t: what it returned (status, val), the        *)
(* terminal it left, and plat, the platform calls it made, in order.       *)
(***************************************************************************)
Out(status, val, t, plat) == [status |-> status, val |-> val, term |-> t, plat |-> plat]

\* Mutant: the coordinates handed over in the wrong order.
set_cursor_pos_swapped(t, x, y) ==
    {Out(r.status, r.val, r.term, <<r.call>>) : r \in platform_set_cursor_pos(t, y, x)}

\* pub fn set_cursor_pos(x, y): platform::set_cursor_pos(x, y)
set_cursor_pos(t, x, y) ==
    {Out(r.status, r.val, r.term, <<r.call>>) : r \in platform_set_cursor_pos(t, x, y)}

\* pub fn get_cursor_pos(): platform::get_cursor_pos()
get_cursor_pos(t, Replies) ==
    {Out(r.status, r.val, r.term, <<r.call>>) : r \in platform_get_cursor_pos(t, Replies)}

\* Mutant: clear() calling the wrong platform function, the move to the origin.
clear_only_homes(t) ==
    {Out(r.status, r.val, r.term, <<r.call>>) : r \in platform_set_cursor_pos(t, 0, 0)}

\* pub fn clear(): platform::clear()
clear(t) ==
    {Out(r.status, r.val, r.term, <<r.call>>) : r \in platform_clear(t)}

\* .map_err(|_| FmtError)?  applied to a platform call's status
map_err(status) == IF status \in Error THEN FmtError ELSE status

\* Mutant: the result of set_cursor_pos dropped instead of propagated.
Goto_fmt_swallows(t, x, y) ==
    {Out("Ok", NoVal, r.term, <<r.call>>) : r \in platform_set_cursor_pos(t, x, y)}

\* impl Display for Goto
Goto_fmt(t, x, y) ==
    {Out(map_err(r.status), NoVal, r.term, <<r.call>>)
        : r \in platform_set_cursor_pos(t, x, y)}

\* impl Display for Clear
Clear_fmt(t) ==
    {Out(map_err(r.status), NoVal, r.term, <<r.call>>) : r \in platform_clear(t)}

\* Mutant: a failed read replaced by the origin instead of ending fmt.
Relative_get_defaults(t, Replies) ==
    {Out(IF r.status \in {"Panic", "Blocked"} THEN r.status ELSE "Running",
         IF r.status = "Ok" THEN r.val ELSE Origin, r.term, <<r.call>>)
        : r \in platform_get_cursor_pos(t, Replies)}

\* Relative::fmt, line 77: the read.  status "Running" means fmt goes on to
\* line 78 with the position read in val.
Relative_get(t, Replies) ==
    {Out(IF r.status = "Ok" THEN "Running" ELSE map_err(r.status),
         r.val, r.term, <<r.call>>)
        : r \in platform_get_cursor_pos(t, Replies)}

\* Mutant: the two coordinates of the position read mixed up.
Relative_sum_crossed(dx, dy, cur) ==
    [ovf |-> AddOvf(dx, cur[2]) \/ AddOvf(dy, cur[1]),
     tgt |-> <<AddWrap(dx, cur[2]), AddWrap(dy, cur[1])>>]

\* Relative::fmt, line 79: (x + cur_x, y + cur_y) in i32.
Relative_sum(dx, dy, cur) ==
    [ovf |-> AddOvf(dx, cur[1]) \/ AddOvf(dy, cur[2]),
     tgt |-> <<AddWrap(dx, cur[1]), AddWrap(dy, cur[2])>>]

\* Mutant: the delta added to where the cursor is at the time of the write
\* (an atomic relative move) instead of to the position read earlier.
Relative_set_fresh(t, cur, dx, dy) ==
    LET s == Relative_sum(dx, dy, t.cur)
    IN  IF s.ovf /\ checks
        THEN {[status |-> "Panic", term |-> t, plat |-> <<>>, tgt |-> s.tgt, ovf |-> TRUE]}
        ELSE {[status |-> map_err(r.status), term |-> r.term, plat |-> <<r.call>>,
               tgt |-> s.tgt, ovf |-> s.ovf]
                 : r \in platform_set_cursor_pos(t, s.tgt[1], s.tgt[2])}

\* Relative::fmt, lines 78-81: the sum and the write, with the position cur
\* read at line 77.  tgt is what is passed to set_cursor_pos.
Relative_set(t, cur, dx, dy) ==
    LET s == Relative_sum(dx, dy, cur)
    IN  IF s.ovf /\ checks
        THEN {[status |-> "Panic", term |-> t, plat |-> <<>>, tgt |-> s.tgt, ovf |-> TRUE]}
        ELSE {[status |-> map_err(r.status), term |-> r.term, plat |-> <<r.call>>,
               tgt |-> s.tgt, ovf |-> s.ovf]
                 : r \in platform_set_cursor_pos(t, s.tgt[1], s.tgt[2])}

\* The whole of Relative::fmt with nothing else touching the terminal:
\* its outcomes as (status, terminal left, platform calls made).
Relative_fmt(t, dx, dy, Replies) ==
    UNION {IF g.status = "Running"
           THEN {[status |-> w.status, term |-> w.term, plat |-> g.plat \o w.plat]
                    : w \in Relative_set(g.term, g.val, dx, dy)}
           ELSE {[status |-> g.status, term |-> g.term, plat |-> g.plat]}
              : g \in Relative_get(t, Replies)}

\* The Relative each single-axis type builds before it delegates, with ovf
\* when its negation overflows.
Left_arg(n) == [ovf |-> NegOvf(n), d |-> <<NegWrap(n), 0>>]

Right_arg(n) == [ovf |-> FALSE, d |-> <<n, 0>>]

Up_arg(n) == [ovf |-> NegOvf(n), d |-> <<0, NegWrap(n)>>]

Down_arg(n) == [ovf |-> FALSE, d |-> <<0, n>>]

Relative_arg(x, y) == [ovf |-> FALSE, d |-> <<x, y>>]

Kinds == {"Relative", "Left", "Right", "Up", "Down"}

\* The delegation of a render of `kind` with fields (a, b).
Arg(kind, a, b) == CASE kind = "Relative" -> Relative_arg(a, b)
                     [] kind = "Left" -> Left_arg(a)
                     [] kind = "Right" -> Right_arg(a)
                     [] kind = "Up" -> Up_arg(a)
                     [] kind = "Down" -> Down_arg(a)

Delegate(t, arg, Replies) ==
    IF arg.ovf /\ checks
    THEN {[status |-> "Panic", term |-> t, plat |-> <<>>]}
    ELSE Relative_fmt(t, arg.d[1], arg.d[2], Replies)

Left_fmt(t, n, Replies) == Delegate(t, Left_arg(n), Replies)

Right_fmt(t, n, Replies) == Delegate(t, Right_arg(n), Replies)

Up_fmt(t, n, Replies) == Delegate(t, Up_arg(n), Replies)

Down_fmt(t, n, Replies) == Delegate(t, Down_arg(n), Replies)

(***************************************************************************)
(* The state machine.  backend and checks are fixed by the build; term is  *)
(* the one terminal bound to the process; th[t] is what thread t last      *)
(* called and how far it got:                                              *)
(*   pc     "idle", "rel" (inside Relative::fmt, between the read and the  *)
(*          write) or "gone" (panicked, or blocked in a read for ever)     *)
(*   op, a, b   the call or the rendered type, and its fields              *)
(*   d      the delta handed to Relative::fmt                              *)
(*   cur    the position Relative::fmt read                                *)
(*   tgt    the position Relative::fmt passed to set_cursor_pos            *)
(*   ovf    an i32 operation of the render overflowed                      *)
(*   status, val   what the call returned                                  *)
(*   plat   the platform calls it made                                     *)
(*   start  the terminal when the call began                               *)
(*   hit    another thread moved the cursor while pc = "rel"               *)
(*   after  for get_cursor_pos: the successful set_cursor_pos or clear the *)
(*          thread made just before                                        *)
(* A platform call is one step: the library takes no lock, and a thread    *)
(* inside Relative::fmt can be overtaken between its two platform calls.   *)
(***************************************************************************)
Threads == {1, 2}

NoPrev == [op |-> "other", a |-> 0, b |-> 0]

Prev(r) == IF r.pc = "idle" /\ r.status = "Ok" /\ r.op \in {"set_cursor_pos", "clear"}
           THEN [op |-> r.op, a |-> r.a, b |-> r.b]
           ELSE NoPrev

Rec(pc, op, a, b, d, cur, tgt, ovf, status, val, plat, start, hit, after, endcur) ==
    [pc |-> pc, op |-> op, a |-> a, b |-> b, d |-> d, cur |-> cur, tgt |-> tgt,
     ovf |-> ovf, status |-> status, val |-> val, plat |-> plat, start |-> start,
     hit |-> hit, after |-> after, endcur |-> endcur]

\* How a call that returned, panicked or blocked leaves its thread.
PcAfter(status) == IF status \in {"Panic", "Blocked"} THEN "gone" ELSE "idle"

Terms == [cur : Cells, chars : {Filled}, attrs : {OldAttrs}]

Init == /\ backend \in {"ansi", "windows"}
        /\ checks \in BOOLEAN
        /\ term \in Terms
        /\ th = [t \in Threads |->
                   Rec("idle", "none", 0, 0, Origin, Origin, Origin, FALSE,
                       "None", NoVal, <<>>, term, FALSE, NoPrev, term.cur)]

\* Thread t's record becomes r and the terminal becomes t2; a thread caught
\* between the read and the write of Relative::fmt notes a moved cursor.
Step(t, r, t2) ==
    /\ term' = t2
    /\ th' = [u \in Threads |->
                IF u = t THEN r
                ELSE IF th[u].pc = "rel" /\ t2.cur # term.cur
                     THEN [th[u] EXCEPT !.hit = TRUE]
                     ELSE th[u]]
    /\ UNCHANGED <<backend, checks>>

\* A call of a free function or a render of Goto or Clear: one platform call.
Whole(t, op, a, b, results, after) ==
    /\ th[t].pc = "idle"
    /\ \E o \in results :
          Step(t, Rec(PcAfter(o.status), op, a, b, Origin, Origin, Origin, FALSE,
                      o.status, o.val, o.plat, term, FALSE, after, o.term.cur),
               o.term)

CallSet(t, x, y) == Whole(t, "set_cursor_pos", x, y, set_cursor_pos(term, x, y), NoPrev)

CallGet(t, Replies) ==
    Whole(t, "get_cursor_pos", 0, 0, get_cursor_pos(term, Replies), Prev(th[t]))

CallClear(t) == Whole(t, "clear", 0, 0, clear(term), NoPrev)

RenderGoto(t, x, y) == Whole(t, "Goto", x, y, Goto_fmt(term, x, y), NoPrev)

RenderClear(t) == Whole(t, "Clear", 0, 0, Clear_fmt(term), NoPrev)

\* Rendering Relative, Left, Right, Up or Down, up to and including the
\* read of the cursor position (lib.rs:93/105/117/129, then line 77).
RenderBegin(t, kind, a, b, Replies) ==
    /\ th[t].pc = "idle"
    /\ LET arg == Arg(kind, a, b)
       IN  IF arg.ovf /\ checks
           THEN Step(t, Rec("gone", kind, a, b, arg.d, Origin, Origin, TRUE,
                            "Panic", NoVal, <<>>, term, FALSE, NoPrev, term.cur),
                     term)
           ELSE \E g \in Relative_get(term, Replies) :
                   Step(t, Rec(IF g.status = "Running" THEN "rel" ELSE PcAfter(g.status),
                               kind, a, b, arg.d,
                               IF g.status = "Running" THEN g.val ELSE Origin,
                               Origin, arg.ovf, g.status, NoVal, g.plat, term,
                               FALSE, NoPrev, g.term.cur),
                        g.term)

\* The rest of Relative::fmt: the sum and the write (lines 78-81).
RenderEnd(t) ==
    /\ th[t].pc = "rel"
    /\ \E w \in Relative_set(term, th[t].cur, th[t].d[1], th[t].d[2]) :
          Step(t, [th[t] EXCEPT !.pc = PcAfter(w.status), !.status = w.status,
                                !.tgt = w.tgt, !.ovf = @ \/ w.ovf,
                                !.plat = @ \o w.plat, !.endcur = w.term.cur],
               w.term)

(***************************************************************************)
(* Inputs.  Positions and deltas on the screen, off it on either side, and *)
(* at both ends of i32; replies of a terminal that misbehaves.             *)
(***************************************************************************)
ApiPairs == {<<0, 0>>, <<1, 1>>, <<2, 0>>, <<7, 1>>, <<0, 7>>, <<-1, 0>>,
             <<0, MinI32>>}

FmtPairs == {<<1, 1>>, <<7, 0>>}

FmtDeltas == {<<1, 0>>, <<-1, MaxI32>>}

RelPairs == {<<0, 0>>, <<1, 1>>}

RelDeltas == {<<1, 0>>, <<-1, -1>>, <<7, 7>>, <<MaxI32, 0>>, <<0, MinI32>>}

AxisArgs == {MinI32, 1, MaxI32}

RacePairs == {<<0, 0>>}

RaceDeltas == {<<1, 0>>, <<-1, 0>>}

\* No R at all; a non-numeric row.
SomeGarbled == {<<ESC, "[", "1", ";", "1">>, <<ESC, "[", "x", ";", "1", "R">>}

OneGarbled == {<<ESC, "[", "x", ";", "1", "R">>}

Garbled ==
    {p \o r \o s \o c \o e :
        p \in {<<ESC, "[">>, <<"[">>, <<ESC, "x">>},
        r \in {<<"1">>, <<>>, <<"x">>},
        s \in {<<";">>, <<>>},
        c \in {<<"2">>, <<"x">>},
        e \in {<<"R">>, <<>>}}
    \cup {<<ESC, "[", "1", ";", ";", "1", "R">>,
          <<ESC, "[", "1", ";", "1", "0", "R">>,
          <<ESC, "[", "0", ";", "0", "R">>,
          <<ESC, "[", "-", "1", ";", "1", "R">>,
          <<ESC, "[", "1", ";", "9", "9", "9", "9", "9", "9", "9", "9", "9", "9", "R">>,
          <<"x", ESC, "[", "1", ";", "1", "R">>}

(***************************************************************************)
(* Specifications.                                                         *)
(***************************************************************************)
\* One thread calling the free functions and rendering Clear.
Next ==
    \/ \E p \in ApiPairs : CallSet(1, p[1], p[2])
    \/ CallGet(1, SomeGarbled)
    \/ CallClear(1)
    \/ RenderClear(1)

Spec == Init /\ [][Next]_vars

\* One thread, every operation of the library.
NextFmt ==
    \/ \E p \in FmtPairs : CallSet(1, p[1], p[2])
    \/ CallGet(1, OneGarbled)
    \/ CallClear(1)
    \/ \E p \in FmtPairs : RenderGoto(1, p[1], p[2])
    \/ RenderClear(1)
    \/ \E p \in FmtDeltas : RenderBegin(1, "Relative", p[1], p[2], OneGarbled)
    \/ \E k \in Kinds \ {"Relative"} : RenderBegin(1, k, 1, 0, OneGarbled)
    \/ RenderEnd(1)

SpecFmt == Init /\ [][NextFmt]_vars

\* One thread rendering the relative movements, every kind, over the range
\* of i32.
NextRel ==
    \/ \E p \in RelPairs : CallSet(1, p[1], p[2])
    \/ \E p \in RelDeltas : RenderBegin(1, "Relative", p[1], p[2], OneGarbled)
    \/ \E k \in Kinds \ {"Relative"} : \E n \in AxisArgs :
          RenderBegin(1, k, n, 0, OneGarbled)
    \/ RenderEnd(1)

SpecRel == Init /\ [][NextRel]_vars

\* Two threads on the same terminal, moving the cursor along its first row.
InitRace == Init /\ term.cur = Origin

NextRace ==
    \E t \in Threads :
        \/ \E p \in RacePairs : CallSet(t, p[1], p[2])
        \/ \E p \in RaceDeltas : RenderBegin(t, "Relative", p[1], p[2], {})
        \/ RenderEnd(t)

SpecRace == InitRace /\ [][NextRace]_vars

\* One thread on the ANSI backend asking a terminal that answers anything.
InitAnsi == Init /\ backend = "ansi"

NextParse ==
    \/ \E p \in RacePairs : CallSet(1, p[1], p[2])
    \/ CallGet(1, Garbled)

SpecParse == InitAnsi /\ [][NextParse]_vars

(***************************************************************************)
(* Properties.                                                             *)
(***************************************************************************)
\* The terminal answered the position query of call record c, made on
\* terminal t, with its own report.
Honest(c, t) == backend = "windows" \/ c.reply = HonestReply(t)

\* Thread t has returned from get_cursor_pos with a position, asked of a
\* terminal that reports honestly, right after its own successful `op`.
GotAfter(t, op) ==
    /\ th[t].pc = "idle" /\ th[t].op = "get_cursor_pos" /\ th[t].status = "Ok"
    /\ th[t].after.op = op
    /\ Honest(th[t].plat[1], th[t].start)

\* C1 as stated: for all x >= 0 and y >= 0, a successful set_cursor_pos(x, y)
\* followed by get_cursor_pos() returns exactly (x, y).
C1_RoundTripAll ==
    \A t \in Threads :
        (GotAfter(t, "set_cursor_pos") /\ th[t].after.a >= 0 /\ th[t].after.b >= 0)
            => th[t].val = <<th[t].after.a, th[t].after.b>>

\* C1 amended: for all (x, y) on the screen, a successful set_cursor_pos(x, y)
\* followed by get_cursor_pos() returns exactly (x, y); on the ANSI backend
\* a successful set_cursor_pos(x, y) to a position on the screen sends
\* ESC[{y+1};{x+1}H, and a position returned by get_cursor_pos is
\* (col-1, row-1) of the reply ESC[{row};{col}R it read.
C1_RoundTripOnScreen ==
    \A t \in Threads :
        /\ (GotAfter(t, "set_cursor_pos") /\ OnScreen(th[t].after.a, th[t].after.b))
              => th[t].val = <<th[t].after.a, th[t].after.b>>
        /\ (/\ backend = "ansi" /\ th[t].op = "set_cursor_pos" /\ th[t].status = "Ok"
            /\ OnScreen(th[t].a, th[t].b))
              => th[t].plat[1].sent = <<ESC, "[">> \o FmtNat(th[t].b + 1) \o <<";">>
                                      \o FmtNat(th[t].a + 1) \o <<"H">>
        /\ (backend = "ansi" /\ th[t].op = "get_cursor_pos" /\ th[t].status = "Ok")
              => \E row, col \in 0..99 :
                    /\ th[t].plat[1].reply = <<ESC, "[">> \o FmtNat(row) \o <<";">>
                                             \o FmtNat(col) \o <<"R">>
                    /\ th[t].val = <<col - 1, row - 1>>

\* C1's case: on the ANSI backend get_cursor_pos returned (2, 0) right after
\* set_cursor_pos(2, 0) moved the cursor there from somewhere else.
C1_Witness ==
    /\ backend = "ansi" /\ GotAfter(1, "set_cursor_pos")
    /\ th[1].after.a = 2 /\ th[1].after.b = 0
    /\ th[1].val = <<2, 0>>

\* C4: a successful clear() or render of Clear leaves every cell blank and
\* the cursor at the origin, whatever the screen and the cursor were, and a
\* get_cursor_pos() that follows it returns (0, 0).
C4_ClearHomes ==
    /\ (th[1].op \in {"clear", "Clear"} /\ th[1].status = "Ok")
          => (\A c \in Cells : term.chars[c] = " ") /\ term.cur = Origin
    /\ GotAfter(1, "clear") => th[1].val = Origin

\* C4's case: clear() succeeded on a screen full of text with the cursor
\* away from the origin.
C4_Witness ==
    /\ th[1].op = "clear" /\ th[1].status = "Ok"
    /\ th[1].start.cur = <<1, 1>> /\ th[1].start.chars = Filled
    /\ term.chars = Blank /\ term.cur = Origin

\* The console calls each Windows operation makes, in order.
WinCalls(op) ==
    CASE op = "set_cursor_pos" -> <<"GetStdHandle", "SetConsoleCursorPosition">>
      [] op = "get_cursor_pos" -> <<"GetStdHandle", "GetConsoleScreenBufferInfo">>
      [] op = "clear" -> <<"GetStdHandle", "GetConsoleScreenBufferInfo",
                           "FillConsoleOutputCharacter",
                           "FillConsoleOutputAttribute",
                           "SetConsoleCursorPosition">>

\* The console after exactly the first n calls of `calls` took effect on t0;
\* pos is where the operation's SetConsoleCursorPosition moves the cursor.
AfterCalls(t0, calls, n, pos) ==
    LET done == {calls[i] : i \in 1..n}
    IN  [cur   |-> IF "SetConsoleCursorPosition" \in done THEN pos ELSE t0.cur,
         chars |-> IF "FillConsoleOutputCharacter" \in done THEN Blank ELSE t0.chars,
         attrs |-> IF "FillConsoleOutputAttribute" \in done THEN CurAttrs ELSE t0.attrs]

\* C7: on the Windows backend set_cursor_pos, get_cursor_pos and clear fail
\* only with the error naming the console call that failed, that call is the
\* last one made, and the console holds exactly the effects of the calls
\* before it (all of them when the operation succeeds).
C7_WinFailure ==
    (backend = "windows" /\ th[1].op \in {"set_cursor_pos", "get_cursor_pos", "clear"})
    => LET r     == th[1]
           calls == WinCalls(r.op)
           os    == r.plat[1].os
           pos   == IF r.op = "clear" THEN Origin ELSE <<r.a, r.b>>
       IN  /\ r.status \in WinApiError \cup {"Ok"}
           /\ Len(os) \in 1..Len(calls)
           /\ os = SubSeq(calls, 1, Len(os))
           /\ r.status = "Ok" =>
                 Len(os) = Len(calls) /\ term = AfterCalls(r.start, calls, Len(os), pos)
           /\ r.status # "Ok" =>
                 /\ r.status = WinErr(os[Len(os)])
                 /\ term = AfterCalls(r.start, calls, Len(os) - 1, pos)

\* C7's case: clear failed at FillConsoleOutputAttribute, with the
\* characters already blanked, the attributes untouched and the cursor not
\* reset.
C7_Witness ==
    /\ backend = "windows" /\ th[1].op = "clear"
    /\ th[1].status = "FillConsoleOutputAttributeError"
    /\ th[1].start.chars = Filled /\ th[1].start.cur = <<1, 1>>
    /\ term.chars = Blank /\ term.attrs = OldAttrs /\ term.cur = <<1, 1>>

\* Every error a backend can produce.
BackendErrors == {IoError, GetCursorPosParseError} \cup WinApiError

\* The platform calls a render makes when none of them fails.
CallsOf(op) == CASE op = "Goto" -> <<"set_cursor_pos">>
                 [] op = "Clear" -> <<"clear">>
                 [] op \in Kinds -> <<"get_cursor_pos", "set_cursor_pos">>

\* C5: set_cursor_pos, get_cursor_pos and clear return what the one backend
\* call they make returned, error variant included; a render that returns
\* returns Ok or the one formatting error, the formatting error exactly when
\* a backend call it made failed (whatever the variant), and Ok exactly when
\* it made all its backend calls and each succeeded.
C5_Propagation ==
    LET r == th[1]
    IN  /\ r.op \in {"set_cursor_pos", "get_cursor_pos", "clear"}
              => /\ Len(r.plat) = 1
                 /\ r.status = r.plat[1].status
                 /\ r.val = r.plat[1].val
        /\ (r.op \in {"Goto", "Clear"} \cup Kinds /\ r.pc = "idle")
              => /\ r.status \in {"Ok", FmtError}
                 /\ r.status = FmtError
                       <=> \E i \in 1..Len(r.plat) : r.plat[i].status \in BackendErrors
                 /\ r.status = "Ok"
                       <=> /\ [i \in 1..Len(r.plat) |-> r.plat[i].fn] = CallsOf(r.op)
                           /\ \A i \in 1..Len(r.plat) : r.plat[i].status = "Ok"

\* C5's case: a render of Relative returned the formatting error because its
\* set_cursor_pos failed after its get_cursor_pos had succeeded.
C5_Witness ==
    /\ th[1].op = "Relative" /\ th[1].pc = "idle" /\ th[1].status = FmtError
    /\ Len(th[1].plat) = 2
    /\ th[1].plat[1].status = "Ok"
    /\ th[1].plat[2].status \in {IoError, "SetConsoleCursorPositionError"}

\* C8: when the get_cursor_pos of a render of Relative, Left, Right, Up or
\* Down fails, the render returns the formatting error having made that one
\* call and no other, and the cursor is where it was; no render makes more
\* than one get_cursor_pos and one set_cursor_pos, and a failed call is the
\* last one it makes.
C8_AbortOnFailure ==
    LET r == th[1]
    IN  r.op \in Kinds =>
          /\ Len(r.plat) <= 2
          /\ \A i \in 1..Len(r.plat) :
                /\ r.plat[i].fn = CallsOf(r.op)[i]
                /\ r.plat[i].status # "Ok" => i = Len(r.plat)
          /\ (Len(r.plat) >= 1 /\ r.plat[1].status \in BackendErrors)
                => /\ r.pc = "idle" /\ r.status = FmtError
                   /\ Len(r.plat) = 1
                   /\ term.cur = r.start.cur

\* C8's case: a render of Left failed at its get_cursor_pos.
C8_Witness ==
    /\ th[1].op = "Left" /\ th[1].pc = "idle" /\ th[1].status = FmtError
    /\ Len(th[1].plat) = 1 /\ th[1].plat[1].fn = "get_cursor_pos"
    /\ th[1].plat[1].status \in BackendErrors
    /\ term.cur = th[1].start.cur

\* C10: no negation and no sum in a render of Relative, Left, Right, Up or
\* Down leaves i32: the render does not panic, the delta of Left(n) and
\* Up(n) is exactly -n, and the target is exactly (cur_x + dx, cur_y + dy).
C10_ExactArithmetic ==
    \A t \in Threads :
        LET r == th[t]
        IN  r.op \in Kinds =>
              /\ ~r.ovf
              /\ r.status # "Panic"
              /\ r.op = "Left" => r.d = <<-r.a, 0>>
              /\ r.op = "Up" => r.d = <<0, -r.a>>
              /\ (Len(r.plat) = 2) => r.tgt = <<r.cur[1] + r.d[1], r.cur[2] + r.d[2]>>

\* What a finished render left behind: its result, the terminal and the
\* platform calls it made.
Outcome(r) == [status |-> r.status, term |-> term, plat |-> r.plat]

Moved(t) == th[t].op = "Relative" /\ th[t].pc = "idle" /\ th[t].status = "Ok"

\* Where Relative(dx, dy) is to take a cursor at the start of the render.
Sum(r) == <<r.start.cur[1] + r.a, r.start.cur[2] + r.b>>

\* C2 as stated: a render of Relative(dx, dy) with the cursor at (x, y), and
\* no other change of the cursor between its read and its write, leaves the
\* cursor at (x+dx, y+dy).
C2_RelativeMoves ==
    \A t \in Threads :
        (Moved(t) /\ ~th[t].hit) => th[t].endcur = Sum(th[t])

\* C2 amended: a render of Relative(dx, dy) with the cursor at (x, y) and
\* (x+dx, y+dy) on the screen, and no other change of the cursor between its
\* read and its write, leaves the cursor at (x+dx, y+dy); it makes one
\* get_cursor_pos and then one set_cursor_pos, with the sum.
C2_RelativeMovesOnScreen ==
    \A t \in Threads :
        LET r == th[t]
        IN  (Moved(t) /\ ~r.hit /\ OnScreen(Sum(r)[1], Sum(r)[2])) =>
              /\ r.endcur = Sum(r)
              /\ Len(r.plat) = 2
              /\ r.plat[1].fn = "get_cursor_pos" /\ r.plat[1].val = r.start.cur
              /\ r.plat[2].fn = "set_cursor_pos"
              /\ <<r.plat[2].x, r.plat[2].y>> = Sum(r)

\* C2's case: Relative(1, 0) took the cursor from (1, 0) to (2, 0) while the
\* other thread had run since the terminal started.
C2_Witness ==
    /\ Moved(1) /\ ~th[1].hit /\ th[1].a = 1 /\ th[1].b = 0
    /\ th[1].start.cur = <<1, 0>> /\ th[1].endcur = <<2, 0>>
    /\ th[2].op # "none"

\* C9: a render of Relative writes the position it read earlier plus its
\* delta, whether or not another thread moved the cursor since the read: the
\* other thread's move is overwritten.
C9_Overwrite ==
    \A t \in Threads :
        LET r == th[t]
        IN  Moved(t) =>
              /\ r.tgt = <<r.cur[1] + r.d[1], r.cur[2] + r.d[2]>>
              /\ r.cur = r.start.cur
              /\ <<r.plat[2].x, r.plat[2].y>> = r.tgt
              /\ OnScreen(r.tgt[1], r.tgt[2]) => r.endcur = r.tgt

\* The cursors two renders of Relative can leave when they run one after
\* the other, in either order, from terminal t0 and both return Ok.
SerialEnds(t0, d1, d2) ==
    LET Ok(t, d) == {w.term : w \in {o \in Relative_fmt(t, d[1], d[2], {}) : o.status = "Ok"}}
        Seq2(da, db) == UNION {{t2.cur : t2 \in Ok(t1, db)} : t1 \in Ok(t0, da)}
    IN  Seq2(d1, d2) \cup Seq2(d2, d1)

\* C9's case: two threads rendered Relative(1, 0) from the same terminal
\* state, the second write overwrote the first, and the cursor is where no
\* serial order of the two renders leaves it: one delta is lost.
C9_Witness ==
    /\ Moved(1) /\ Moved(2)
    /\ th[1].d = <<1, 0>> /\ th[2].d = <<1, 0>>
    /\ th[1].start = th[2].start
    /\ th[1].hit /\ term.cur = th[1].endcur
    /\ term.cur = <<th[1].start.cur[1] + 1, th[1].start.cur[2]>>
    /\ term.cur \notin SerialEnds(th[1].start, th[1].d, th[2].d)
    /\ SerialEnds(th[1].start, th[1].d, th[2].d) # {}

\* The reply matches ESC[{row};{col}R, row and col decimal numbers.
Matches(s) ==
    /\ Len(s) >= 6
    /\ s[1] = ESC /\ s[2] = "[" /\ s[Len(s)] = "R"
    /\ \E i \in 4..(Len(s) - 2) :
          /\ s[i] = ";"
          /\ \A j \in 3..(i - 1) : IsDigit(s[j])
          /\ \A j \in (i + 1)..(Len(s) - 1) : IsDigit(s[j])

\* Thread t asked an ANSI terminal for the position and was offered a reply
\* that does not match the grammar.
Malformed(t) ==
    /\ backend = "ansi" /\ th[t].op = "get_cursor_pos"
    /\ th[t].plat[1].reply # <<>>
    /\ ~Matches(th[t].plat[1].reply)

====
